---- MODULE Spec2Model ----
(***************************************************************************)
(* Header serialization layer of the remoting protocol: the two-way        *)
(* mapping between typed request headers and the flat string-keyed Field   *)
(* Map, for RegisterBrokerRequestHeader and GetMaxOffsetRequestHeader,     *)
(* and the routing accessors of GetMaxOffsetRequestHeader.                 *)
(*                                                                         *)
(* Text (Rust String) is a sequence of one-character strings.  Integers    *)
(* are sign/magnitude decimal numbers (mag is the sequence of decimal      *)
(* digits, most significant first, zero is the empty magnitude), so that   *)
(* the i64, u32 and i32 ranges keep their real width.                      *)
(***************************************************************************)
EXTENDS Integers, Sequences, FiniteSets, TLC

VARIABLES ty, header, op, outcome, ret, named

vars == <<ty, header, op, outcome, ret, named>>

(***************************************************************************)
(* Option<T>, and the result of a call that may panic.                     *)
(***************************************************************************)
None == [some |-> FALSE]

Some(x) == [some |-> TRUE, v |-> x]

Unit == "()"

Panic == [panicked |-> TRUE]

Return(self, value) == [panicked |-> FALSE, self |-> self, value |-> value]

(***************************************************************************)
(* Text and numbers.                                                       *)
(***************************************************************************)
DigitChars == <<"0", "1", "2", "3", "4", "5", "6", "7", "8", "9">>

IsDigit(c) == \E d \in 1..10 : DigitChars[d] = c

DigitVal(c) == (CHOOSE d \in 1..10 : DigitChars[d] = c) - 1

RECURSIVE StripZeros(_)
StripZeros(ds) ==
    IF ds # <<>> /\ Head(ds) = 0 THEN StripZeros(Tail(ds)) ELSE ds

\* a <= b for two magnitudes without leading zeros
RECURSIVE LexLeq(_, _)
LexLeq(a, b) ==
    IF a = <<>> THEN TRUE
    ELSE IF Head(a) # Head(b) THEN Head(a) < Head(b)
    ELSE LexLeq(Tail(a), Tail(b))

MagLeq(a, b) ==
    \/ Len(a) < Len(b)
    \/ Len(a) = Len(b) /\ LexLeq(a, b)

Num(neg, mag) == [neg |-> neg, mag |-> mag]

Zero == Num(FALSE, <<>>)

I64_MAX == <<9, 2, 2, 3, 3, 7, 2, 0, 3, 6, 8, 5, 4, 7, 7, 5, 8, 0, 7>>

I64_MIN == <<9, 2, 2, 3, 3, 7, 2, 0, 3, 6, 8, 5, 4, 7, 7, 5, 8, 0, 8>>

U32_MAX == <<4, 2, 9, 4, 9, 6, 7, 2, 9, 5>>

I32_MAX == <<2, 1, 4, 7, 4, 8, 3, 6, 4, 7>>

I32_MIN == <<2, 1, 4, 7, 4, 8, 3, 6, 4, 8>>

IntType(signed, max, min) == [signed |-> signed, max |-> max, min |-> min]

I64 == IntType(TRUE, I64_MAX, I64_MIN)

U32 == IntType(FALSE, U32_MAX, <<>>)

I32 == IntType(TRUE, I32_MAX, I32_MIN)

\* str::parse::<integer>(): an optional sign (a '-' only for a signed type),
\* then one or more decimal digits, within the range of the type
ParseInt(s, t) ==
    IF s = <<>> THEN None
    ELSE IF Len(s) = 1 /\ Head(s) \in {"+", "-"} THEN None
    ELSE LET neg == t.signed /\ Head(s) = "-"
             digits == IF Head(s) = "+" \/ neg THEN Tail(s) ELSE s
         IN  IF \E i \in 1..Len(digits) : ~IsDigit(digits[i]) THEN None
             ELSE LET mag == StripZeros([i \in 1..Len(digits) |-> DigitVal(digits[i])])
                  IN  IF neg /\ ~MagLeq(mag, t.min) THEN None
                      ELSE IF ~neg /\ ~MagLeq(mag, t.max) THEN None
                      ELSE Some(Num(neg /\ mag # <<>>, mag))

\* integer to_string(): canonical base-10 text
IntToString(n) ==
    (IF n.neg THEN <<"-">> ELSE <<>>)
        \o (IF n.mag = <<>> THEN <<"0">>
            ELSE [i \in 1..Len(n.mag) |-> DigitChars[n.mag[i] + 1]])

T_true == <<"t", "r", "u", "e">>

T_false == <<"f", "a", "l", "s", "e">>

\* variant: a lenient boolean parse that also takes "1" and "TRUE" for true
ParseBool_lenient(s) ==
    IF s \in {<<"t", "r", "u", "e">>, <<"T", "R", "U", "E">>, <<"1">>} THEN Some(TRUE)
    ELSE IF s = <<"f", "a", "l", "s", "e">> THEN Some(FALSE)
    ELSE None

\* str::parse::<bool>(): exactly "true" or "false"
ParseBool(s) ==
    IF s = T_true THEN Some(TRUE)
    ELSE IF s = T_false THEN Some(FALSE)
    ELSE None

BoolToString(b) == IF b THEN T_true ELSE T_false

(***************************************************************************)
(* HashMap<String, String>.                                                *)
(***************************************************************************)
EmptyMap == [k \in {} |-> <<>>]

Insert(map, k, value) == (k :> value) @@ map

Extend(map, other) == other @@ map

Get(map, k) == IF k \in DOMAIN map THEN Some(map[k]) ELSE None

\* Option::unwrap_or
UnwrapOr(o, d) == IF o.some THEN o.v ELSE d

Ok(value) == [panicked |-> FALSE, value |-> value]

(***************************************************************************)
(* RegisterBrokerRequestHeader                                             *)
(***************************************************************************)
BROKER_NAME == "brokerName"

BROKER_ADDR == "brokerAddr"

CLUSTER_NAME == "clusterName"

HA_SERVER_ADDR == "haServerAddr"

BROKER_ID == "brokerId"

HEARTBEAT_TIMEOUT_MILLIS == "heartbeatTimeoutMillis"

ENABLE_ACTING_MASTER == "enableActingMaster"

COMPRESSED == "compressed"

BODY_CRC32 == "bodyCrc32"

\* the arguments of new, in the order of its parameters: broker_name,
\* broker_addr, cluster_name, ha_server_addr, broker_id,
\* heartbeat_timeout_millis, enable_acting_master, compressed, body_crc32
RegisterBrokerRequestHeader_new(args) ==
    [broker_name |-> args[1],
     broker_addr |-> args[2],
     cluster_name |-> args[3],
     ha_server_addr |-> args[4],
     broker_id |-> args[5],
     heartbeat_timeout_millis |-> args[6],
     enable_acting_master |-> args[7],
     compressed |-> args[8],
     body_crc32 |-> args[9]]

ParseI64(s) == ParseInt(s, I64)

\* variant: the checksum parsed with the width of an i32
ParseU32_as_i32(s) == ParseInt(s, IntType(TRUE, I32_MAX, I32_MIN))

ParseU32(s) == ParseInt(s, U32)

ParseI32(s) == ParseInt(s, I32)

\* map.get(k).and_then(|s| s.parse::<T>().ok())
GetI64(map, k) == IF Get(map, k).some THEN ParseI64(Get(map, k).v) ELSE None

GetU32(map, k) == IF Get(map, k).some THEN ParseU32(Get(map, k).v) ELSE None

GetBool(map, k) == IF Get(map, k).some THEN ParseBool(Get(map, k).v) ELSE None

GetI32(map, k) == IF Get(map, k).some THEN ParseI32(Get(map, k).v) ELSE None

\* variant: cluster_name read under the key of ha_server_addr
RegisterBrokerRequestHeader_from_wrong_key(map) ==
    Ok(Some(
        [broker_name |-> UnwrapOr(Get(map, BROKER_NAME), <<>>),
         broker_addr |-> UnwrapOr(Get(map, BROKER_ADDR), <<>>),
         cluster_name |-> UnwrapOr(Get(map, HA_SERVER_ADDR), <<>>),
         ha_server_addr |-> UnwrapOr(Get(map, HA_SERVER_ADDR), <<>>),
         broker_id |-> UnwrapOr(GetI64(map, BROKER_ID), Zero),
         heartbeat_timeout_millis |-> GetI64(map, HEARTBEAT_TIMEOUT_MILLIS),
         enable_acting_master |-> GetBool(map, ENABLE_ACTING_MASTER),
         compressed |-> UnwrapOr(GetBool(map, COMPRESSED), FALSE),
         body_crc32 |-> UnwrapOr(GetU32(map, BODY_CRC32), Zero)]))

RegisterBrokerRequestHeader_from(map) ==
    Ok(Some(
        [broker_name |-> UnwrapOr(Get(map, BROKER_NAME), <<>>),
         broker_addr |-> UnwrapOr(Get(map, BROKER_ADDR), <<>>),
         cluster_name |-> UnwrapOr(Get(map, CLUSTER_NAME), <<>>),
         ha_server_addr |-> UnwrapOr(Get(map, HA_SERVER_ADDR), <<>>),
         broker_id |-> UnwrapOr(GetI64(map, BROKER_ID), Zero),
         heartbeat_timeout_millis |-> GetI64(map, HEARTBEAT_TIMEOUT_MILLIS),
         enable_acting_master |-> GetBool(map, ENABLE_ACTING_MASTER),
         compressed |-> UnwrapOr(GetBool(map, COMPRESSED), FALSE),
         body_crc32 |-> UnwrapOr(GetU32(map, BODY_CRC32), Zero)]))

RegisterBrokerRequestHeader_check_fields(self) == Return(self, "Ok")

\* variant: heartbeatTimeoutMillis written whether set or not
RegisterBrokerRequestHeader_to_map_always(self) ==
    LET m1 == Insert(EmptyMap, BROKER_NAME, self.broker_name)
        m2 == Insert(m1, BROKER_ADDR, self.broker_addr)
        m3 == Insert(m2, CLUSTER_NAME, self.cluster_name)
        m4 == Insert(m3, HA_SERVER_ADDR, self.ha_server_addr)
        m5 == Insert(m4, BROKER_ID, IntToString(self.broker_id))
        m6 == Insert(m5, HEARTBEAT_TIMEOUT_MILLIS,
                     IntToString(UnwrapOr(self.heartbeat_timeout_millis, Zero)))
        m7 == IF self.enable_acting_master.some
              THEN Insert(m6, ENABLE_ACTING_MASTER,
                          BoolToString(self.enable_acting_master.v))
              ELSE m6
        m8 == Insert(m7, COMPRESSED, BoolToString(self.compressed))
        m9 == Insert(m8, BODY_CRC32, IntToString(self.body_crc32))
    IN  Return(self, Some(m9))

RegisterBrokerRequestHeader_to_map(self) ==
    LET m1 == Insert(EmptyMap, BROKER_NAME, self.broker_name)
        m2 == Insert(m1, BROKER_ADDR, self.broker_addr)
        m3 == Insert(m2, CLUSTER_NAME, self.cluster_name)
        m4 == Insert(m3, HA_SERVER_ADDR, self.ha_server_addr)
        m5 == Insert(m4, BROKER_ID, IntToString(self.broker_id))
        m6 == IF self.heartbeat_timeout_millis.some
              THEN Insert(m5, HEARTBEAT_TIMEOUT_MILLIS,
                          IntToString(self.heartbeat_timeout_millis.v))
              ELSE m5
        m7 == IF self.enable_acting_master.some
              THEN Insert(m6, ENABLE_ACTING_MASTER,
                          BoolToString(self.enable_acting_master.v))
              ELSE m6
        m8 == Insert(m7, COMPRESSED, BoolToString(self.compressed))
        m9 == Insert(m8, BODY_CRC32, IntToString(self.body_crc32))
    IN  Return(self, Some(m9))

(***************************************************************************)
(* RpcRequestHeader and TopicRequestHeader: the embedded routing           *)
(* sub-header and its RPC-identity group.                                  *)
(***************************************************************************)
NAMESPACE == "namespace"

NAMESPACED == "namespaced"

ONEWAY == "oneway"

LO == "lo"

RpcRequestHeader_from(map) ==
    Some([namespace |-> Get(map, NAMESPACE),
          namespaced |-> GetBool(map, NAMESPACED),
          broker_name |-> Get(map, BROKER_NAME),
          oneway |-> GetBool(map, ONEWAY)])

RpcRequestHeader_to_map(self) ==
    LET m1 == IF self.namespace.some
              THEN Insert(EmptyMap, NAMESPACE, self.namespace.v) ELSE EmptyMap
        m2 == IF self.namespaced.some
              THEN Insert(m1, NAMESPACED, BoolToString(self.namespaced.v)) ELSE m1
        m3 == IF self.broker_name.some
              THEN Insert(m2, BROKER_NAME, self.broker_name.v) ELSE m2
        m4 == IF self.oneway.some
              THEN Insert(m3, ONEWAY, BoolToString(self.oneway.v)) ELSE m3
    IN  Some(m4)

TopicRequestHeader_from(map) ==
    Some([lo |-> GetBool(map, LO),
          rpc_request_header |-> RpcRequestHeader_from(map)])

TopicRequestHeader_to_map(self) ==
    LET m1 == IF self.lo.some
              THEN Insert(EmptyMap, LO, BoolToString(self.lo.v)) ELSE EmptyMap
        m2 == IF self.rpc_request_header.some
              THEN LET sub == RpcRequestHeader_to_map(self.rpc_request_header.v)
                   IN  IF sub.some THEN Extend(m1, sub.v) ELSE m1
              ELSE m1
    IN  Some(m2)

(***************************************************************************)
(* GetMaxOffsetRequestHeader                                               *)
(***************************************************************************)
TOPIC == "topic"

QUEUE_ID == "queueId"

COMMITTED == "committed"

GetMaxOffsetRequestHeader(topic, queue_id, committed, topic_request_header) ==
    [topic |-> topic,
     queue_id |-> queue_id,
     committed |-> committed,
     topic_request_header |-> topic_request_header]

GetMaxOffsetRequestHeader_default ==
    GetMaxOffsetRequestHeader(<<>>, Zero, TRUE, None)

GetMaxOffsetRequestHeader_to_map(self) ==
    LET m1 == Insert(EmptyMap, TOPIC, self.topic)
        m2 == Insert(m1, QUEUE_ID, IntToString(self.queue_id))
        m3 == Insert(m2, COMMITTED, BoolToString(self.committed))
        m4 == IF self.topic_request_header.some
              THEN LET sub == TopicRequestHeader_to_map(self.topic_request_header.v)
                   IN  IF sub.some THEN Extend(m3, sub.v) ELSE m3
              ELSE m3
    IN  Return(self, Some(m4))

\* variant: committed defaults with unwrap_or_default, that is to false
GetMaxOffsetRequestHeader_from_default_false(map) ==
    LET queue_id == GetI32(map, QUEUE_ID)
        committed == GetBool(map, COMMITTED)
    IN  IF Get(map, QUEUE_ID).some /\ ~queue_id.some THEN Panic
        ELSE IF Get(map, COMMITTED).some /\ ~committed.some THEN Panic
        ELSE Ok(Some(GetMaxOffsetRequestHeader(
                        UnwrapOr(Get(map, TOPIC), <<>>),
                        UnwrapOr(queue_id, Zero),
                        UnwrapOr(committed, FALSE),
                        TopicRequestHeader_from(map))))

\* variant: the routing sub-header left at its Default instead of decoded
GetMaxOffsetRequestHeader_from_no_routing(map) ==
    LET queue_id == GetI32(map, QUEUE_ID)
        committed == GetBool(map, COMMITTED)
    IN  IF Get(map, QUEUE_ID).some /\ ~queue_id.some THEN Panic
        ELSE IF Get(map, COMMITTED).some /\ ~committed.some THEN Panic
        ELSE Ok(Some(GetMaxOffsetRequestHeader(
                        UnwrapOr(Get(map, TOPIC), <<>>),
                        UnwrapOr(queue_id, Zero),
                        UnwrapOr(committed, TRUE),
                        None)))

\* .map(|s| s.parse().unwrap()): a present value that does not parse panics
GetMaxOffsetRequestHeader_from(map) ==
    LET queue_id == GetI32(map, QUEUE_ID)
        committed == GetBool(map, COMMITTED)
    IN  IF Get(map, QUEUE_ID).some /\ ~queue_id.some THEN Panic
        ELSE IF Get(map, COMMITTED).some /\ ~committed.some THEN Panic
        ELSE Ok(Some(GetMaxOffsetRequestHeader(
                        UnwrapOr(Get(map, TOPIC), <<>>),
                        UnwrapOr(queue_id, Zero),
                        UnwrapOr(committed, TRUE),
                        TopicRequestHeader_from(map))))

\* impl TopicRequestHeaderTrait for GetMaxOffsetRequestHeader
set_lo(self, lo_) ==
    IF ~self.topic_request_header.some THEN Panic
    ELSE Return([self EXCEPT !.topic_request_header.v.lo = lo_], Unit)

lo(self) ==
    IF ~self.topic_request_header.some THEN Panic
    ELSE Return(self, self.topic_request_header.v.lo)

set_topic(self, topic_) == Return([self EXCEPT !.topic = topic_], Unit)

topic(self) == Return(self, self.topic)

\* self.topic_request_header.unwrap().rpc_request_header.unwrap()
HasRpc(self) ==
    /\ self.topic_request_header.some
    /\ self.topic_request_header.v.rpc_request_header.some

Rpc(self) == self.topic_request_header.v.rpc_request_header.v

\* variant: and_then instead of unwrap, None when the group is absent
broker_name_and_then(self) ==
    IF ~HasRpc(self) THEN Return(self, None) ELSE Return(self, Rpc(self).broker_name)

broker_name(self) ==
    IF ~HasRpc(self) THEN Panic ELSE Return(self, Rpc(self).broker_name)

set_broker_name(self, broker_name_) ==
    IF ~HasRpc(self) THEN Panic
    ELSE Return([self EXCEPT
                   !.topic_request_header.v.rpc_request_header.v.broker_name =
                       Some(broker_name_)], Unit)

namespace(self) ==
    IF ~HasRpc(self) THEN Panic ELSE Return(self, Rpc(self).namespace)

\* variant: the body of set_broker_name copied without renaming the field
set_namespace_copied(self, namespace_) ==
    IF ~HasRpc(self) THEN Panic
    ELSE Return([self EXCEPT
                   !.topic_request_header.v.rpc_request_header.v.broker_name =
                       Some(namespace_)], Unit)

set_namespace(self, namespace_) ==
    IF ~HasRpc(self) THEN Panic
    ELSE Return([self EXCEPT
                   !.topic_request_header.v.rpc_request_header.v.namespace =
                       Some(namespace_)], Unit)

namespaced(self) ==
    IF ~HasRpc(self) THEN Panic ELSE Return(self, Rpc(self).namespaced)

set_namespaced(self, namespaced_) ==
    IF ~HasRpc(self) THEN Panic
    ELSE Return([self EXCEPT
                   !.topic_request_header.v.rpc_request_header.v.namespaced =
                       Some(namespaced_)], Unit)

oneway(self) ==
    IF ~HasRpc(self) THEN Panic ELSE Return(self, Rpc(self).oneway)

set_oneway(self, oneway_) ==
    IF ~HasRpc(self) THEN Panic
    ELSE Return([self EXCEPT
                   !.topic_request_header.v.rpc_request_header.v.oneway =
                       Some(oneway_)], Unit)

queue_id(self) == Return(self, Some(self.queue_id))

\* variant: None leaves the queue id as it is
set_queue_id_if_some(self, queue_id_) ==
    Return([self EXCEPT !.queue_id = UnwrapOr(queue_id_, self.queue_id)], Unit)

set_queue_id(self, queue_id_) ==
    Return([self EXCEPT !.queue_id = UnwrapOr(queue_id_, Zero)], Unit)

(***************************************************************************)
(* Inputs.                                                                 *)
(***************************************************************************)
MaxLeadingZeros == 1

T_empty == <<>>

T_broker_a == <<"b", "r", "o", "k", "e", "r", "-", "a">>

T_broker_b == <<"b", "r", "o", "k", "e", "r", "-", "b">>

T_orderTopic == <<"o", "r", "d", "e", "r", "T", "o", "p", "i", "c">>

T_addr == <<"1", ".", "2", ":", "9">>

T_cluster == <<"c", "1">>

T_ha == <<"h", "a">>

T_ns == <<"n", "s">>

T_maybe == <<"m", "a", "y", "b", "e">>

T_abc == <<"a", "b", "c">>

T_TRUE == <<"T", "R", "U", "E">>

Three == Num(FALSE, <<3>>)

MinusOne == Num(TRUE, <<1>>)

\* the decimal text of a magnitude one above the given one (last digit < 9)
Above(mag) == [mag EXCEPT ![Len(mag)] = @ + 1]

Digits(mag) == [i \in 1..Len(mag) |-> DigitChars[mag[i] + 1]]

\* text of n with a '+' sign, and with 1..MaxLeadingZeros leading zeros
Plus(n) == <<"+">> \o IntToString(n)

Padded(n) ==
    {[i \in 1..z |-> "0"] \o IntToString(n) : z \in 1..MaxLeadingZeros}

Opt(S) == {None} \cup {Some(x) : x \in S}

MapOf(f) == [k \in {k \in DOMAIN f : f[k].some} |-> f[k].v]

RegisterInbound ==
    {MapOf(f) : f \in
        [brokerName : Opt({T_broker_a}),
         brokerAddr : Opt({T_addr}),
         clusterName : Opt({T_cluster}),
         haServerAddr : Opt({T_ha}),
         brokerId : Opt({IntToString(MinusOne), Plus(Three), Digits(I64_MAX),
                         Digits(Above(I64_MAX)), T_abc} \cup Padded(Three)),
         heartbeatTimeoutMillis : Opt({<<"-">> \o Digits(I64_MIN),
                                       <<"-">> \o Digits(Above(I64_MIN)),
                                       T_empty}),
         enableActingMaster : Opt({T_false, T_TRUE}),
         compressed : Opt({T_true, <<"1">>}),
         bodyCrc32 : Opt({Digits(U32_MAX), Digits(Above(U32_MAX)),
                          IntToString(MinusOne)})]}

GetMaxOffsetInbound ==
    {MapOf(f) : f \in
        [topic : Opt({T_orderTopic}),
         queueId : Opt({IntToString(Three), <<"-">> \o Digits(I32_MIN),
                        Digits(Above(I32_MAX)), T_abc} \cup Padded(Three)),
         committed : Opt({T_false, T_true, T_maybe}),
         lo : Opt({T_true, T_maybe}),
         brokerName : Opt({T_broker_a}),
         namespace : Opt({T_ns}),
         namespaced : Opt({T_true}),
         oneway : Opt({T_false, T_maybe})]}

Strings == {T_empty, T_broker_a}

RpcLiterals ==
    {None,
     Some([namespace |-> None, namespaced |-> None,
           broker_name |-> None, oneway |-> None])}

TopicRequestHeaderLiterals ==
    {None} \cup {Some([lo |-> None, rpc_request_header |-> r]) : r \in RpcLiterals}

(***************************************************************************)
(* The state: one command's header instance (ty names its type, NONE       *)
(* before the command has a header), the last operation performed (its     *)
(* name, the header type it belongs to and its argument), how it ended,    *)
(* what it returned, and the last broker name                              *)
(* given to set_broker_name on this instance.  A command gets its header   *)
(* from a constructor on the sending side or from the decode of an inbound *)
(* Field Map on the receiving side; the Field Map that to_map returns may  *)
(* be decoded in turn.                                                     *)
(***************************************************************************)
NONE == "none"

NoHeader == [absent |-> TRUE]

REGISTER == "RegisterBrokerRequestHeader"

GET_MAX_OFFSET == "GetMaxOffsetRequestHeader"

\* what ret and op.arg hold is tagged with its type
Tagged(tag, value) == tag :> value

NoArg == Tagged("no_arg", Unit)

NoValue == Tagged("no_value", Unit)

Built == Tagged("unit", Unit)

Init ==
    /\ ty = NONE
    /\ header = NoHeader
    /\ op = [name |-> "none", on |-> NONE, arg |-> NoArg]
    /\ outcome = "returned"
    /\ ret = Built
    /\ named = None

\* a constructor or a successful decode replaces the instance
Replace(t, name, arg, h, value) ==
    /\ ty' = t
    /\ header' = h
    /\ op' = [name |-> name, on |-> t, arg |-> arg]
    /\ outcome' = "returned"
    /\ ret' = value
    /\ named' = None

\* a method call on the instance: r is Panic or Return(self, value), and
\* tag names the type of the value
Call(name, arg, r, tag) ==
    /\ ty' = ty
    /\ op' = [name |-> name, on |-> ty, arg |-> arg]
    /\ IF r.panicked
       THEN /\ outcome' = "panicked"
            /\ ret' = NoValue
            /\ header' = header
       ELSE /\ outcome' = "returned"
            /\ ret' = Tagged(tag, r.value)
            /\ header' = r.self

\* an associated function that builds a header: r is Panic or Ok(Some(h))
Decode(t, m, r) ==
    IF r.panicked
    THEN /\ op' = [name |-> "from", on |-> t, arg |-> Tagged("map", m)]
         /\ outcome' = "panicked"
         /\ ret' = NoValue
         /\ UNCHANGED <<ty, header, named>>
    ELSE Replace(t, "from", Tagged("map", m), r.value.v, Tagged("opt_header", r.value))

\* the Field Maps a decode into type t may be given: an inbound one for a
\* command that has no header yet, or the one to_map has just returned
Wire(t, inbound) ==
    IF ty = NONE THEN inbound
    ELSE IF ty = t /\ op.name = "to_map" /\ outcome = "returned" /\ ret.opt_map.some
    THEN {ret.opt_map.v} ELSE {}

\* a panic unwinds the caller: nothing more is done with the command
Running == outcome = "returned"

New ==
    /\ Running
    /\ ty = NONE
    /\ \E bn \in Strings, ba \in {T_empty, T_addr}, cn \in {T_cluster}, ha \in {T_ha},
       id \in {Zero, MinusOne, Num(FALSE, I64_MAX)},
       hb \in Opt({Num(TRUE, I64_MIN), Three}),
       eam \in Opt(BOOLEAN), c \in BOOLEAN,
       crc \in {Zero, Num(FALSE, U32_MAX)} :
        Replace(REGISTER, "new", NoArg,
                RegisterBrokerRequestHeader_new(<<bn, ba, cn, ha, id, hb, eam, c, crc>>),
                Built)

RegisterFrom ==
    /\ Running
    /\ \E m \in Wire(REGISTER, RegisterInbound) :
        Decode(REGISTER, m, RegisterBrokerRequestHeader_from(m))

RegisterToMap ==
    /\ Running
    /\ ty = REGISTER
    /\ Call("to_map", NoArg, RegisterBrokerRequestHeader_to_map(header), "opt_map")
    /\ UNCHANGED named

CheckFields ==
    /\ Running
    /\ ty = REGISTER
    /\ Call("check_fields", NoArg, RegisterBrokerRequestHeader_check_fields(header),
            "result")
    /\ UNCHANGED named

Default ==
    /\ Running
    /\ ty = NONE
    /\ Replace(GET_MAX_OFFSET, "default", NoArg, GetMaxOffsetRequestHeader_default, Built)

Literal ==
    /\ Running
    /\ ty = NONE
    /\ \E t \in {T_empty, T_orderTopic}, q \in {Zero, Three}, c \in BOOLEAN,
       trh \in TopicRequestHeaderLiterals :
        Replace(GET_MAX_OFFSET, "literal", NoArg,
                GetMaxOffsetRequestHeader(t, q, c, trh), Built)

GetMaxOffsetFrom ==
    /\ Running
    /\ \E m \in Wire(GET_MAX_OFFSET, GetMaxOffsetInbound) :
        Decode(GET_MAX_OFFSET, m, GetMaxOffsetRequestHeader_from(m))

GetMaxOffsetToMap ==
    /\ Running
    /\ ty = GET_MAX_OFFSET
    /\ Call("to_map", NoArg, GetMaxOffsetRequestHeader_to_map(header), "opt_map")
    /\ UNCHANGED named

SetLo ==
    /\ Running
    /\ ty = GET_MAX_OFFSET
    /\ \E v \in Opt(BOOLEAN) : Call("set_lo", Tagged("opt_bool", v), set_lo(header, v), "unit")
    /\ UNCHANGED named

GetLo ==
    /\ Running
    /\ ty = GET_MAX_OFFSET
    /\ Call("lo", NoArg, lo(header), "opt_bool")
    /\ UNCHANGED named

SetTopic ==
    /\ Running
    /\ ty = GET_MAX_OFFSET
    /\ \E v \in {T_empty, T_orderTopic} :
        Call("set_topic", Tagged("str", v), set_topic(header, v), "unit")
    /\ UNCHANGED named

GetTopic ==
    /\ Running
    /\ ty = GET_MAX_OFFSET
    /\ Call("topic", NoArg, topic(header), "str")
    /\ UNCHANGED named

GetBrokerName ==
    /\ Running
    /\ ty = GET_MAX_OFFSET
    /\ Call("broker_name", NoArg, broker_name(header), "opt_str")
    /\ UNCHANGED named

SetBrokerName ==
    /\ Running
    /\ ty = GET_MAX_OFFSET
    /\ \E v \in {T_broker_a, T_broker_b} :
        /\ Call("set_broker_name", Tagged("str", v), set_broker_name(header, v), "unit")
        /\ named' = IF set_broker_name(header, v).panicked THEN named ELSE Some(v)

GetNamespace ==
    /\ Running
    /\ ty = GET_MAX_OFFSET
    /\ Call("namespace", NoArg, namespace(header), "opt_str")
    /\ UNCHANGED named

SetNamespace ==
    /\ Running
    /\ ty = GET_MAX_OFFSET
    /\ \E v \in {T_ns} :
        Call("set_namespace", Tagged("str", v), set_namespace(header, v), "unit")
    /\ UNCHANGED named

GetNamespaced ==
    /\ Running
    /\ ty = GET_MAX_OFFSET
    /\ Call("namespaced", NoArg, namespaced(header), "opt_bool")
    /\ UNCHANGED named

SetNamespaced ==
    /\ Running
    /\ ty = GET_MAX_OFFSET
    /\ \E v \in BOOLEAN :
        Call("set_namespaced", Tagged("bool", v), set_namespaced(header, v), "unit")
    /\ UNCHANGED named

GetOneway ==
    /\ Running
    /\ ty = GET_MAX_OFFSET
    /\ Call("oneway", NoArg, oneway(header), "opt_bool")
    /\ UNCHANGED named

SetOneway ==
    /\ Running
    /\ ty = GET_MAX_OFFSET
    /\ \E v \in BOOLEAN : Call("set_oneway", Tagged("bool", v), set_oneway(header, v), "unit")
    /\ UNCHANGED named

GetQueueId ==
    /\ Running
    /\ ty = GET_MAX_OFFSET
    /\ Call("queue_id", NoArg, queue_id(header), "opt_i32")
    /\ UNCHANGED named

SetQueueId ==
    /\ Running
    /\ ty = GET_MAX_OFFSET
    /\ \E v \in Opt({Three}) :
        Call("set_queue_id", Tagged("opt_i32", v), set_queue_id(header, v), "unit")
    /\ UNCHANGED named

Next ==
    \/ New
    \/ RegisterFrom
    \/ RegisterToMap
    \/ CheckFields
    \/ Default
    \/ Literal
    \/ GetMaxOffsetFrom
    \/ GetMaxOffsetToMap
    \/ SetLo
    \/ GetLo
    \/ SetTopic
    \/ GetTopic
    \/ GetBrokerName
    \/ SetBrokerName
    \/ GetNamespace
    \/ SetNamespace
    \/ GetNamespaced
    \/ SetNamespaced
    \/ GetOneway
    \/ SetOneway
    \/ GetQueueId
    \/ SetQueueId

Spec == Init /\ [][Next]_vars

(***************************************************************************)
(* The wire contract of the two header types, as the properties below      *)
(* state it.                                                               *)
(***************************************************************************)
RequiredKeys(t) ==
    IF t = REGISTER
    THEN {BROKER_NAME, BROKER_ADDR, CLUSTER_NAME, HA_SERVER_ADDR, BROKER_ID,
          COMPRESSED, BODY_CRC32}
    ELSE {TOPIC, QUEUE_ID, COMMITTED}

OptionalKeys(t) ==
    IF t = REGISTER
    THEN {HEARTBEAT_TIMEOUT_MILLIS, ENABLE_ACTING_MASTER}
    ELSE {LO, BROKER_NAME, NAMESPACE, NAMESPACED, ONEWAY}

KeyType(t, k) ==
    IF t = REGISTER
    THEN CASE k \in {BROKER_ID, HEARTBEAT_TIMEOUT_MILLIS} -> "i64"
           [] k = BODY_CRC32 -> "u32"
           [] k \in {ENABLE_ACTING_MASTER, COMPRESSED} -> "bool"
           [] OTHER -> "str"
    ELSE CASE k = QUEUE_ID -> "i32"
           [] k \in {COMMITTED, LO, NAMESPACED, ONEWAY} -> "bool"
           [] OTHER -> "str"

\* the typed value a text stands for (None when it stands for none)
Meaning(kt, text) ==
    CASE kt = "i64" -> ParseInt(text, I64)
      [] kt = "u32" -> ParseInt(text, U32)
      [] kt = "i32" -> ParseInt(text, I32)
      [] kt = "bool" -> ParseBool(text)
      [] OTHER -> Some(text)

Equivalent(kt, a, b) == Meaning(kt, a).some /\ Meaning(kt, a) = Meaning(kt, b)

WellFormed(t, m) ==
    \A k \in DOMAIN m \cap (RequiredKeys(t) \cup OptionalKeys(t)) :
        Meaning(KeyType(t, k), m[k]).some

\* the text of the default a required field takes when its key is absent
DefaultText(t, k) ==
    CASE KeyType(t, k) = "str" -> <<>>
      [] KeyType(t, k) = "bool" -> IF k = COMMITTED THEN T_true ELSE T_false
      [] OTHER -> <<"0">>

\* the direct field of a header that a required key is decoded into, as text
FieldText(t, h, k) ==
    IF t = REGISTER
    THEN CASE k = BROKER_NAME -> h.broker_name
           [] k = BROKER_ADDR -> h.broker_addr
           [] k = CLUSTER_NAME -> h.cluster_name
           [] k = HA_SERVER_ADDR -> h.ha_server_addr
           [] k = BROKER_ID ->
                IF h.broker_id = Zero THEN <<"0">> ELSE <<"nonzero">>
           [] k = COMPRESSED -> IF h.compressed THEN T_true ELSE T_false
           [] k = BODY_CRC32 ->
                IF h.body_crc32 = Zero THEN <<"0">> ELSE <<"nonzero">>
    ELSE CASE k = TOPIC -> h.topic
           [] k = QUEUE_ID ->
                IF h.queue_id = Zero THEN <<"0">> ELSE <<"nonzero">>
           [] k = COMMITTED -> IF h.committed THEN T_true ELSE T_false

Decoded == op.name = "from" /\ outcome = "returned"

Encoded == op.name = "to_map" /\ outcome = "returned"

(***************************************************************************)
(* C1                                                                      *)
(***************************************************************************)
\* C1 (as claimed): for every header h of either type, decoding the Field
\* Map that to_map(h) returned yields a header equal to h in every field.
C1_RoundTripEveryHeader ==
    [][(Encoded /\ op'.name = "from")
          => /\ outcome' = "returned"
             /\ ret'.opt_header = Some(header)
             /\ header' = header]_vars

\* C1 (amended): from(to_map(h)) returns a header equal to h in every field
\* for every RegisterBrokerRequestHeader h and for every
\* GetMaxOffsetRequestHeader h whose routing sub-header and RPC-identity
\* group are both present; for a GetMaxOffsetRequestHeader without them the
\* decode still returns, and topic, queue_id and committed equal those of h.
C1_RoundTrip ==
    [][(Encoded /\ op'.name = "from")
          => /\ outcome' = "returned"
             /\ ret'.opt_header = Some(header')
             /\ (ty = REGISTER \/ HasRpc(header)) => header' = header
             /\ ty = GET_MAX_OFFSET =>
                  /\ header'.topic = header.topic
                  /\ header'.queue_id = header.queue_id
                  /\ header'.committed = header.committed]_vars

\* a GetMaxOffsetRequestHeader with its sub-header, carrying a broker name and
\* the smallest queue id, has been decoded from the map it encodes to
C1_Witness ==
    /\ Decoded
    /\ ty = GET_MAX_OFFSET
    /\ HasRpc(header)
    /\ Rpc(header).broker_name = Some(T_broker_a)
    /\ header.queue_id = Num(TRUE, I32_MIN)
    /\ op.arg.map = GetMaxOffsetRequestHeader_to_map(header).value.v

(***************************************************************************)
(* C2                                                                      *)
(***************************************************************************)
\* what to_map(from(m)) = out must satisfy with respect to m
Reproduces(t, m, out) ==
    /\ \A k \in DOMAIN m \cap (RequiredKeys(t) \cup OptionalKeys(t)) :
          k \in DOMAIN out /\ Equivalent(KeyType(t, k), m[k], out[k])
    /\ \A k \in DOMAIN out \ DOMAIN m :
          k \in RequiredKeys(t) /\ out[k] = DefaultText(t, k)

\* C2 (as claimed): for every input Field Map m, to_map(from(m)) contains
\* every key of m that belongs to the header type with an equivalent value;
\* other keys appear only as defaults of required fields.
C2_ReproducesEveryMap ==
    [][(Decoded /\ op'.name = "to_map")
          => (outcome' = "returned" /\ ret'.opt_map.some
                /\ Reproduces(ty, op.arg.map, ret'.opt_map.v))]_vars

\* C2 (amended): the same, for every input Field Map m whose present values
\* each parse into the type of their field.
C2_Reproduces ==
    [][(Decoded /\ WellFormed(ty, op.arg.map) /\ op'.name = "to_map")
          => (outcome' = "returned" /\ ret'.opt_map.some
                /\ Reproduces(ty, op.arg.map, ret'.opt_map.v))]_vars

\* a RegisterBrokerRequestHeader decoded from a map that wrote brokerId as
\* "+3" or "03" (no constructor input has that id) has been encoded again
C2_Witness ==
    /\ Encoded
    /\ ty = REGISTER
    /\ header.broker_id = Three
    /\ ret.opt_map.v[BROKER_ID] = <<"3">>
    /\ HEARTBEAT_TIMEOUT_MILLIS \notin DOMAIN ret.opt_map.v

(***************************************************************************)
(* C3                                                                      *)
(***************************************************************************)
\* C3: a decode fails only on account of a key that is present (never of an
\* absent one), and in the header it returns every required field whose
\* key is absent holds its default: empty string, 0, false, and true for
\* committed; this for every subset of missing keys, the empty map included.
C3_AbsentRequiredKeysDefault ==
    op.name = "from" =>
        /\ outcome = "panicked" =>
             \E k \in DOMAIN op.arg.map : ~Meaning(KeyType(op.on, k), op.arg.map[k]).some
        /\ outcome = "returned" =>
             /\ ret.opt_header = Some(header)
             /\ \A k \in RequiredKeys(ty) \ DOMAIN op.arg.map :
                  FieldText(ty, header, k) = DefaultText(ty, k)

\* the empty map has been decoded into a GetMaxOffsetRequestHeader
C3_Witness ==
    /\ Decoded
    /\ ty = GET_MAX_OFFSET
    /\ op.arg.map = EmptyMap
    /\ header.committed

(***************************************************************************)
(* C4                                                                      *)
(***************************************************************************)
\* C4: GetMaxOffsetRequestHeader::from on a map whose "committed" value is
\* present but no boolean, or whose "queueId" value is present but no valid
\* 32-bit integer, completes and returns a header with committed == true,
\* respectively queue_id == 0.
C4_UnparsableFallsBack ==
    (op.name = "from" /\ op.on = GET_MAX_OFFSET) =>
        /\ (COMMITTED \in DOMAIN op.arg.map /\ op.arg.map[COMMITTED] \notin {T_true, T_false})
              => (outcome = "returned" /\ header.committed = TRUE)
        /\ (QUEUE_ID \in DOMAIN op.arg.map
              /\ op.arg.map[QUEUE_ID] \in {T_abc, Digits(Above(I32_MAX))})
              => (outcome = "returned" /\ header.queue_id = Zero)

(***************************************************************************)
(* C5                                                                      *)
(***************************************************************************)
NotI64 == {T_abc, T_empty, Digits(Above(I64_MAX)), <<"-">> \o Digits(Above(I64_MIN))}

NotU32 == {T_abc, T_empty, Digits(Above(U32_MAX)), IntToString(MinusOne)}

NotBool == {T_TRUE, T_maybe, <<"1">>, T_empty}

Among(m, k, texts) == k \in DOMAIN m /\ m[k] \in texts

\* C5: RegisterBrokerRequestHeader::from returns a header for every map; a
\* present brokerId that is no i64 (not a number, or out of range) decodes
\* to 0, a bodyCrc32 that is no u32 (negative, or above 2^32-1) to 0, a
\* compressed that is no boolean to false, and an absent or unparsable
\* heartbeatTimeoutMillis / enableActingMaster to None.
C5_RegisterDecodeIsLenient ==
    (op.name = "from" /\ op.on = REGISTER) =>
        /\ outcome = "returned"
        /\ ty = REGISTER
        /\ ret.opt_header = Some(header)
        /\ Among(op.arg.map, BROKER_ID, NotI64) => header.broker_id = Zero
        /\ Among(op.arg.map, BODY_CRC32, NotU32) => header.body_crc32 = Zero
        /\ Among(op.arg.map, COMPRESSED, NotBool) => header.compressed = FALSE
        /\ (HEARTBEAT_TIMEOUT_MILLIS \notin DOMAIN op.arg.map
              \/ Among(op.arg.map, HEARTBEAT_TIMEOUT_MILLIS, NotI64))
              => header.heartbeat_timeout_millis = None
        /\ (ENABLE_ACTING_MASTER \notin DOMAIN op.arg.map
              \/ Among(op.arg.map, ENABLE_ACTING_MASTER, NotBool))
              => header.enable_acting_master = None

\* a map with a negative bodyCrc32, a brokerId above the i64 range and a
\* heartbeatTimeoutMillis below it has been decoded
C5_Witness ==
    /\ Decoded
    /\ ty = REGISTER
    /\ Among(op.arg.map, BODY_CRC32, {IntToString(MinusOne)})
    /\ Among(op.arg.map, BROKER_ID, {Digits(Above(I64_MAX))})
    /\ Among(op.arg.map, HEARTBEAT_TIMEOUT_MILLIS, {<<"-">> \o Digits(Above(I64_MIN))})
    /\ header.body_crc32 = Zero

(***************************************************************************)
(* C6                                                                      *)
(***************************************************************************)
\* canonical base-10 text: an optional '-', then digits without a leading
\* zero, or the single digit 0
IsBase10(text) ==
    LET digits == IF text # <<>> /\ Head(text) = "-" THEN Tail(text) ELSE text
    IN  /\ digits # <<>>
        /\ \A i \in 1..Len(digits) : IsDigit(digits[i])
        /\ Len(digits) > 1 => digits[1] # "0"
        /\ text # <<"-", "0">>

\* the digits of a number, read back from its text
Denotes(text, n) ==
    LET digits == IF n.neg THEN Tail(text) ELSE text
    IN  /\ n.neg <=> Head(text) = "-"
        /\ IF n.mag = <<>> THEN digits = <<"0">>
           ELSE /\ Len(digits) = Len(n.mag)
                /\ \A i \in 1..Len(digits) : DigitChars[n.mag[i] + 1] = digits[i]

\* C6: to_map always returns a map, which contains every required key of
\* the header type; for RegisterBrokerRequestHeader it contains
\* "heartbeatTimeoutMillis" (resp. "enableActingMaster") exactly when that
\* field is Some; numbers are base-10 text and booleans "true" / "false".
C6_ToMapKeys ==
    op.name = "to_map" =>
        /\ outcome = "returned"
        /\ ret.opt_map.some
        /\ RequiredKeys(ty) \subseteq DOMAIN ret.opt_map.v
        /\ ty = REGISTER =>
             /\ HEARTBEAT_TIMEOUT_MILLIS \in DOMAIN ret.opt_map.v
                   <=> header.heartbeat_timeout_millis.some
             /\ ENABLE_ACTING_MASTER \in DOMAIN ret.opt_map.v
                   <=> header.enable_acting_master.some
             /\ IsBase10(ret.opt_map.v[BROKER_ID])
             /\ Denotes(ret.opt_map.v[BROKER_ID], header.broker_id)
             /\ IsBase10(ret.opt_map.v[BODY_CRC32])
             /\ Denotes(ret.opt_map.v[BODY_CRC32], header.body_crc32)
             /\ header.heartbeat_timeout_millis.some =>
                  /\ IsBase10(ret.opt_map.v[HEARTBEAT_TIMEOUT_MILLIS])
                  /\ Denotes(ret.opt_map.v[HEARTBEAT_TIMEOUT_MILLIS],
                             header.heartbeat_timeout_millis.v)
             /\ header.enable_acting_master.some =>
                  ret.opt_map.v[ENABLE_ACTING_MASTER] =
                      (IF header.enable_acting_master.v THEN T_true ELSE T_false)
             /\ ret.opt_map.v[COMPRESSED] = (IF header.compressed THEN T_true ELSE T_false)
        /\ ty = GET_MAX_OFFSET =>
             /\ IsBase10(ret.opt_map.v[QUEUE_ID])
             /\ Denotes(ret.opt_map.v[QUEUE_ID], header.queue_id)
             /\ ret.opt_map.v[COMMITTED] = (IF header.committed THEN T_true ELSE T_false)

\* a RegisterBrokerRequestHeader with heartbeat_timeout_millis None and
\* enable_acting_master Some(false) has been encoded
C6_Witness ==
    /\ Encoded
    /\ ty = REGISTER
    /\ header.heartbeat_timeout_millis = None
    /\ header.enable_acting_master = Some(FALSE)
    /\ header.broker_id = MinusOne
    /\ HEARTBEAT_TIMEOUT_MILLIS \notin DOMAIN ret.opt_map.v

(***************************************************************************)
(* C7                                                                      *)
(***************************************************************************)
\* every routing getter and setter returns when called on h
RoutingCallsReturn(h) ==
    /\ ~broker_name(h).panicked /\ ~set_broker_name(h, T_broker_a).panicked
    /\ ~namespace(h).panicked /\ ~set_namespace(h, T_ns).panicked
    /\ ~namespaced(h).panicked /\ ~set_namespaced(h, TRUE).panicked
    /\ ~oneway(h).panicked /\ ~set_oneway(h, TRUE).panicked
    /\ ~lo(h).panicked /\ ~set_lo(h, Some(TRUE)).panicked

\* C7: in the header that GetMaxOffsetRequestHeader::from returns for any
\* input map, the routing sub-header and its RPC-identity group are
\* present, each inner field whose key the map lacks is at its decode
\* default None, and no routing accessor or setter fails on it.
C7_DecodedHasRouting ==
    (Decoded /\ op.on = GET_MAX_OFFSET) =>
        /\ header.topic_request_header.some
        /\ header.topic_request_header.v.rpc_request_header.some
        /\ LO \notin DOMAIN op.arg.map => header.topic_request_header.v.lo = None
        /\ BROKER_NAME \notin DOMAIN op.arg.map => Rpc(header).broker_name = None
        /\ NAMESPACE \notin DOMAIN op.arg.map => Rpc(header).namespace = None
        /\ NAMESPACED \notin DOMAIN op.arg.map => Rpc(header).namespaced = None
        /\ ONEWAY \notin DOMAIN op.arg.map => Rpc(header).oneway = None
        /\ RoutingCallsReturn(header)

\* the map {topic: orderTopic, queueId: 3, committed: false} has been decoded
C7_Witness ==
    /\ Decoded
    /\ op.on = GET_MAX_OFFSET
    /\ op.arg.map = [topic |-> T_orderTopic, queueId |-> <<"3">>, committed |-> T_false]
    /\ header.topic = T_orderTopic
    /\ header.queue_id = Three
    /\ header.committed = FALSE

(***************************************************************************)
(* C8                                                                      *)
(***************************************************************************)
\* C8: once set_broker_name(b) has returned on a GetMaxOffsetRequestHeader
\* (named = Some(b)), whatever other setters are called afterwards, the
\* header holds broker name b, broker_name() returns Some(b), and to_map()
\* returns a map with "brokerName" -> b next to the parent's own topic,
\* queueId and committed.
C8_BrokerNameSticks ==
    named.some =>
        /\ ty = GET_MAX_OFFSET
        /\ HasRpc(header)
        /\ Rpc(header).broker_name = Some(named.v)
        /\ op.name = "broker_name" =>
             (outcome = "returned" /\ ret.opt_str = Some(named.v))
        /\ op.name = "to_map" =>
             /\ outcome = "returned"
             /\ ret.opt_map.some
             /\ {BROKER_NAME, TOPIC, QUEUE_ID, COMMITTED} \subseteq DOMAIN ret.opt_map.v
             /\ ret.opt_map.v[BROKER_NAME] = named.v
             /\ ret.opt_map.v[TOPIC] = header.topic
             /\ Denotes(ret.opt_map.v[QUEUE_ID], header.queue_id)
             /\ ret.opt_map.v[COMMITTED] = (IF header.committed THEN T_true ELSE T_false)

\* a header that was given broker-b by set_broker_name, and a namespace by a
\* later set_namespace, has been encoded
C8_Witness ==
    /\ named = Some(T_broker_b)
    /\ Encoded
    /\ Rpc(header).namespace = Some(T_ns)
    /\ ret.opt_map.v[BROKER_NAME] = T_broker_b
    /\ ret.opt_map.v[TOPIC] = T_orderTopic

(***************************************************************************)
(* C9                                                                      *)
(***************************************************************************)
RpcAccessors ==
    {"broker_name", "set_broker_name", "namespace", "set_namespace",
     "namespaced", "set_namespaced", "oneway", "set_oneway"}

LoAccessors == {"lo", "set_lo"}

\* the call fails: it neither returns a value (an Err of check_fields would
\* be one) nor touches the header
Fails ==
    /\ outcome' = "panicked"
    /\ ret' = NoValue
    /\ header' = header

\* C9 (as claimed): every routing accessor called on a
\* GetMaxOffsetRequestHeader whose sub-header or whose RPC-identity group is
\* absent fails, without returning a value or changing the header.
C9_AccessorsFailWithoutRouting ==
    [][(ty = GET_MAX_OFFSET /\ ~HasRpc(header)
          /\ op'.name \in RpcAccessors \cup LoAccessors) => Fails]_vars

\* C9 (amended): broker_name, namespace, namespaced, oneway and their
\* setters fail, without returning a value or changing the header, when the
\* sub-header or its RPC-identity group is absent; lo and set_lo fail so
\* when the sub-header itself is absent (they do not use the RPC-identity
\* group and succeed without it).
C9_AccessorsFail ==
    [][/\ (ty = GET_MAX_OFFSET /\ ~HasRpc(header) /\ op'.name \in RpcAccessors)
            => Fails
       /\ (ty = GET_MAX_OFFSET /\ ~header.topic_request_header.some
             /\ op'.name \in LoAccessors) => Fails
       /\ (ty = GET_MAX_OFFSET /\ header.topic_request_header.some
             /\ op'.name \in LoAccessors) => outcome' = "returned"]_vars

\* set_broker_name has failed on a header built by Default
C9_Witness ==
    /\ ty = GET_MAX_OFFSET
    /\ op.name = "set_broker_name"
    /\ outcome = "panicked"
    /\ header = GetMaxOffsetRequestHeader_default

(***************************************************************************)
(* C10                                                                     *)
(***************************************************************************)
\* set_queue_id leaves every field of the header but the parent's queue_id
QueueIdFrame ==
    /\ header'.topic = header.topic
    /\ header'.committed = header.committed
    /\ header'.topic_request_header = header.topic_request_header

\* C10 (as claimed): for every v, Some(q) or None, set_queue_id(v) followed
\* by queue_id() returns v, and the parent's topic and committed are
\* unchanged.
C10_QueueIdDelegates ==
    [][/\ (op.name = "set_queue_id" /\ op'.name = "queue_id")
            => ret'.opt_i32 = op.arg.opt_i32
       /\ op'.name = "set_queue_id"
            => (header'.topic = header.topic /\ header'.committed = header.committed)]_vars

\* C10 (amended): queue_id()/set_queue_id work on the parent header's own
\* queue_id field: set_queue_id(Some(q)) followed by queue_id() returns
\* Some(q), set_queue_id(None) stores 0 and queue_id() then returns Some(0);
\* topic, committed and the embedded sub-header are unchanged.
C10_QueueIdOnParent ==
    [][/\ (op.name = "set_queue_id" /\ op'.name = "queue_id")
            => /\ outcome' = "returned"
               /\ op.arg.opt_i32.some => ret'.opt_i32 = op.arg.opt_i32
               /\ ~op.arg.opt_i32.some => ret'.opt_i32 = Some(Zero)
       /\ op'.name = "set_queue_id"
            => /\ outcome' = "returned"
               /\ op'.arg.opt_i32.some => header'.queue_id = op'.arg.opt_i32.v
               /\ ~op'.arg.opt_i32.some => header'.queue_id = Zero
               /\ QueueIdFrame]_vars

\* set_queue_id(None) has stored 0 in a decoded header that keeps its topic
\* and its routing sub-header
C10_Witness ==
    /\ ty = GET_MAX_OFFSET
    /\ op.name = "set_queue_id"
    /\ op.arg.opt_i32 = None
    /\ outcome = "returned"
    /\ header.queue_id = Zero
    /\ header.topic = T_orderTopic
    /\ HasRpc(header)
    /\ Rpc(header).oneway = Some(FALSE)

====
